---- MODULE Spec2Model ----
(***************************************************************************)
(* Model of main.py, the Vapi voice-agent backend: the two POST handlers   *)
(* send_specific_email and vapi_webhook, the helpers                       *)
(* extract_tool_call_args and extract_email_from_text, and send_email.     *)
(*                                                                         *)
(* A text (a Python str, a request body) is a sequence of one-character    *)
(* strings.  A JSON value (what json.loads returns) is a tagged record:    *)
(*   [t |-> "null"]                 None                                   *)
(*   [t |-> "bool", b |-> TRUE]     True / False                           *)
(*   [t |-> "num",  n |-> 5]        a non-negative int                     *)
(*   [t |-> "str",  s |-> text]     str                                    *)
(*   [t |-> "list", xs |-> <<..>>]  list                                   *)
(*   [t |-> "obj",  kv |-> <<<<key, value>>, ..>>]  dict, insertion order  *)
(* An exception raised by a Python expression is the value Fault.          *)
(***************************************************************************)
EXTENDS Integers, Sequences, FiniteSets, TLC

VARIABLES
    pc,          \* per request: position of the handler coroutine
    endpoint,    \* per request: which route was posted to
    body,        \* per request: the raw request body
    payload,     \* per request: payload = await request.json()
    tool_args,   \* per request: what extract_tool_call_args(payload) returned
    args,        \* per request: send_specific_email's args
    msg_type,    \* per request: vapi_webhook's msg_type
    user_email,  \* per request: user_email
    user_name,   \* per request: user_name
    topic,       \* per request: topic
    subject,     \* per request: subject handed to send_email
    response,    \* per request: the handler's return value, or the fault
    lookups,     \* per request: the lookups the handler has evaluated so far
    sends,       \* per request: the send_email calls made, with their result
    creds,       \* GMAIL_USER and GMAIL_APP_PASSWORD are both set
    text,        \* the argument of a direct extract_email_from_text call
    pieces,      \* how many fragments that argument was put together from
    found        \* the value that call returned

vars == <<pc, endpoint, body, payload, tool_args, args, msg_type, user_email,
          user_name, topic, subject, response, lookups, sends, creds, text,
          pieces, found>>

reqVars == <<pc, endpoint, body, payload, tool_args, args, msg_type,
             user_email, user_name, topic, subject, response, lookups, sends>>

envVars == <<creds, text, pieces, found>>

----------------------------------------------------------------------------
(* JSON values *)

Null == [t |-> "null"]

Fault == [t |-> "fault"]

Bool(b) == [t |-> "bool", b |-> b]

Num(n) == [t |-> "num", n |-> n]

Str(s) == [t |-> "str", s |-> s]

List(xs) == [t |-> "list", xs |-> xs]

Obj(kv) == [t |-> "obj", kv |-> kv]

EmptyObj == Obj(<<>>)

EmptyList == List(<<>>)

EmptyStr == Str(<<>>)

IsObj(v) == v.t = "obj"

IsStr(v) == v.t = "str"

\* Python truthiness: bool(v)
Truthy(v) ==
    CASE v.t = "null" -> FALSE
      [] v.t = "bool" -> v.b
      [] v.t = "num"  -> v.n # 0
      [] v.t = "str"  -> v.s # <<>>
      [] v.t = "list" -> v.xs # <<>>
      [] v.t = "obj"  -> v.kv # <<>>

\* a or b
PyOr(a, b) == IF Truthy(a) THEN a ELSE b

HasKey(d, k) == \E i \in 1..Len(d.kv) : d.kv[i][1] = k

\* d.get(k, default) on a dict d
Get(d, k, default) ==
    IF HasKey(d, k)
    THEN d.kv[CHOOSE i \in 1..Len(d.kv) : d.kv[i][1] = k][2]
    ELSE default

\* v.get(k, default) on any value: only a dict has .get (AttributeError)
PyGet(v, k, default) == IF IsObj(v) THEN Get(v, k, default) ELSE Fault

\* d[k] = v on a dict: a present key keeps its place
ObjPut(kv, k, v) ==
    IF \E i \in 1..Len(kv) : kv[i][1] = k
    THEN [i \in 1..Len(kv) |-> IF kv[i][1] = k THEN <<k, v>> ELSE kv[i]]
    ELSE Append(kv, <<k, v>>)

----------------------------------------------------------------------------
(* Key names and string literals of main.py *)

K_message == <<"m", "e", "s", "s", "a", "g", "e">>

K_type == <<"t", "y", "p", "e">>

K_customer == <<"c", "u", "s", "t", "o", "m", "e", "r">>

K_email == <<"e", "m", "a", "i", "l">>

K_call == <<"c", "a", "l", "l">>

K_transcript == <<"t", "r", "a", "n", "s", "c", "r", "i", "p", "t">>

K_toolCalls == <<"t", "o", "o", "l", "C", "a", "l", "l", "s">>

K_toolCallList == <<"t", "o", "o", "l", "C", "a", "l", "l", "L", "i", "s", "t">>

K_function == <<"f", "u", "n", "c", "t", "i", "o", "n">>

K_arguments == <<"a", "r", "g", "u", "m", "e", "n", "t", "s">>

K_user_email == <<"u", "s", "e", "r", "_", "e", "m", "a", "i", "l">>

K_user_name == <<"u", "s", "e", "r", "_", "n", "a", "m", "e">>

K_topic == <<"t", "o", "p", "i", "c">>

EndOfCallReport == <<"e", "n", "d", "-", "o", "f", "-", "c", "a", "l", "l", "-", "r", "e", "p", "o", "r", "t">>

DefaultName == <<"t", "h", "e", "r", "e">>

DefaultTopic == <<"y", "o", "u", "r", " ", "r", "e", "q", "u", "e", "s", "t">>

----------------------------------------------------------------------------
(* The regular expression of extract_email_from_text *)

Letter == {"a", "b", "c", "d", "e", "f", "g", "h", "i", "j", "k", "l", "m",
           "n", "o", "p", "q", "r", "s", "t", "u", "v", "w", "x", "y", "z",
           "A", "B", "C", "D", "E", "F", "G", "H", "I", "J", "K", "L", "M",
           "N", "O", "P", "Q", "R", "S", "T", "U", "V", "W", "X", "Y", "Z"}

Digit == {"0", "1", "2", "3", "4", "5", "6", "7", "8", "9"}

\* [a-zA-Z0-9._%+-]
LocalChar == Letter \cup Digit \cup {".", "_", "%", "+", "-"}

\* [a-zA-Z0-9.-]
DomainChar == Letter \cup Digit \cup {".", "-"}

\* {2,}
MinTld == 2

\* The last index of the longest run of Class characters of s that starts at
\* index i (i - 1 when s[i] is not in Class): what a greedy Class* consumes.
RECURSIVE RunEnd(_, _, _)
RunEnd(s, i, Class) ==
    IF i <= Len(s) /\ s[i] \in Class THEN RunEnd(s, i + 1, Class) ELSE i - 1

Max(S) == CHOOSE x \in S : \A y \in S : y <= x

Min(S) == CHOOSE x \in S : \A y \in S : x <= y

\* The TLD attempt after the literal dot at index d: the greedy letter run,
\* accepted when it has at least MinTld letters.  0 is "no match".
TldEnd(s, d) ==
    LET te == RunEnd(s, d + 1, Letter)
    IN  IF te - d >= MinTld THEN te ELSE 0

\* The domain attempt after the '@' at index a: the greedy run, backed off
\* one character at a time until a literal dot and a TLD follow.
DomainMatch(s, a) ==
    LET de == RunEnd(s, a + 1, DomainChar)
        ok == {e \in (a + 1)..de :
                  /\ e + 1 <= Len(s)
                  /\ s[e + 1] = "."
                  /\ TldEnd(s, e + 1) # 0}
    IN  IF ok = {} THEN 0 ELSE TldEnd(s, Max(ok) + 1)

\* The match attempt anchored at index i: the greedy local part, backed off
\* one character at a time until '@' and the rest follow.  Returns the index
\* of the last matched character, 0 when there is no match at i.
MatchAt(s, i) ==
    LET le == RunEnd(s, i, LocalChar)
        ok == {e \in i..le :
                  /\ e + 1 <= Len(s)
                  /\ s[e + 1] = "@"
                  /\ DomainMatch(s, e + 1) # 0}
    IN  IF ok = {} THEN 0 ELSE DomainMatch(s, Max(ok) + 1)

\* ReSearch, but reporting the attempt at the largest index that matches.
ReSearchRightmost(s) ==
    LET starts == {i \in 1..Len(s) : MatchAt(s, i) # 0}
    IN  IF starts = {} THEN <<>> ELSE <<Max(starts), MatchAt(s, Max(starts))>>

\* re.search(pattern, s): the attempt at the smallest index that matches.
\* Returns <<first, last>> of match.group(0), or <<>> for None.
ReSearch(s) ==
    LET starts == {i \in 1..Len(s) : MatchAt(s, i) # 0}
    IN  IF starts = {} THEN <<>> ELSE <<Min(starts), MatchAt(s, Min(starts))>>

\* extract_email_from_text(text) for text a str or None; any other type
\* passes "not text" only when it is falsy, and re.search raises TypeError.
extract_email_from_text(v) ==
    IF ~Truthy(v) THEN Null
    ELSE IF ~IsStr(v) THEN Fault
    ELSE LET m == ReSearch(v.s)
         IN  IF m = <<>> THEN Null ELSE Str(SubSeq(v.s, m[1], m[2]))

----------------------------------------------------------------------------
(* json.dumps(payload) with the default separators and ensure_ascii *)

DigitChars == <<"0", "1", "2", "3", "4", "5", "6", "7", "8", "9">>

RECURSIVE NatToText(_)
NatToText(n) ==
    IF n < 10 THEN <<DigitChars[n + 1]>>
    ELSE NatToText(n \div 10) \o <<DigitChars[(n % 10) + 1]>>

\* The characters of the model's alphabet json.dumps escapes inside a string.
EscapeChar(c) ==
    CASE c = "\"" -> <<"\\", "\"">>
      [] c = "\\" -> <<"\\", "\\">>
      [] c = "\n" -> <<"\\", "n">>
      [] OTHER   -> <<c>>

\* Escaping is character by character; the text is split in halves.
RECURSIVE EscapeText(_)
EscapeText(s) ==
    IF Len(s) = 0 THEN <<>>
    ELSE IF Len(s) = 1 THEN EscapeChar(s[1])
    ELSE EscapeText(SubSeq(s, 1, Len(s) \div 2))
         \o EscapeText(SubSeq(s, (Len(s) \div 2) + 1, Len(s)))

Quote(s) == <<"\"">> \o EscapeText(s) \o <<"\"">>

RECURSIVE Dumps(_), DumpsItems(_, _), DumpsMembers(_, _)
Dumps(v) ==
    CASE v.t = "null" -> <<"n", "u", "l", "l">>
      [] v.t = "bool" -> IF v.b THEN <<"t", "r", "u", "e">>
                                ELSE <<"f", "a", "l", "s", "e">>
      [] v.t = "num"  -> NatToText(v.n)
      [] v.t = "str"  -> Quote(v.s)
      [] v.t = "list" -> <<"[">> \o DumpsItems(v.xs, 1) \o <<"]">>
      [] v.t = "obj"  -> <<"{">> \o DumpsMembers(v.kv, 1) \o <<"}">>

DumpsItems(xs, i) ==
    IF i > Len(xs) THEN <<>>
    ELSE (IF i > 1 THEN <<",", " ">> ELSE <<>>)
         \o Dumps(xs[i]) \o DumpsItems(xs, i + 1)

DumpsMembers(kv, i) ==
    IF i > Len(kv) THEN <<>>
    ELSE (IF i > 1 THEN <<",", " ">> ELSE <<>>)
         \o Quote(kv[i][1]) \o <<":", " ">> \o Dumps(kv[i][2])
         \o DumpsMembers(kv, i + 1)

----------------------------------------------------------------------------
(* json.loads(text): a recursive-descent parse.  A parse result is          *)
(* [ok |-> TRUE, val |-> value, pos |-> index after it] or [ok |-> FALSE]. *)
(* Floats, negative numbers and \u escapes are outside the model's texts.  *)

Whitespace == {" ", "\n", "\t", "\r"}

ParseFail == [ok |-> FALSE]

ParseOk(v, p) == [ok |-> TRUE, val |-> v, pos |-> p]

SkipWs(s, i) == RunEnd(s, i, Whitespace) + 1

StartsWith(s, i, w) == i + Len(w) - 1 <= Len(s) /\ SubSeq(s, i, i + Len(w) - 1) = w

DigitVal(c) == CHOOSE d \in 0..9 : DigitChars[d + 1] = c

RECURSIVE TextToNat(_)
TextToNat(s) ==
    IF s = <<>> THEN 0
    ELSE 10 * TextToNat(SubSeq(s, 1, Len(s) - 1)) + DigitVal(s[Len(s)])

\* The characters that end a run of plain characters inside a string.
StringStops == {"\"", "\\", "\n"}

\* The index of the first character of StringStops from index i on
\* (Len(s) + 1 when there is none).
RECURSIVE NextStop(_, _)
NextStop(s, i) ==
    IF i <= Len(s) /\ s[i] \notin StringStops THEN NextStop(s, i + 1) ELSE i

\* The body of a string after its opening quote, up to the closing quote:
\* runs of plain characters, and escapes.
RECURSIVE ParseString(_, _, _)
ParseString(s, i, acc) ==
    LET e == NextStop(s, i)
        run == acc \o SubSeq(s, i, e - 1)
    IN  CASE e > Len(s) -> ParseFail
          [] e <= Len(s) /\ s[e] = "\n" -> ParseFail
          [] e <= Len(s) /\ s[e] = "\"" -> ParseOk(run, e + 1)
          [] e < Len(s) /\ s[e] = "\\" /\ s[e + 1] \in {"\"", "\\"} ->
                ParseString(s, e + 2, Append(run, s[e + 1]))
          [] e < Len(s) /\ s[e] = "\\" /\ s[e + 1] = "n" ->
                ParseString(s, e + 2, Append(run, "\n"))
          [] OTHER -> ParseFail

RECURSIVE ParseValue(_, _), ParseItems(_, _, _), ParseMembers(_, _, _)
\* The value that starts at the first non-blank index from i on.
ParseValue(s, i) ==
    LET j == SkipWs(s, i)
        e == RunEnd(s, j, Digit)
        str == ParseString(s, j + 1, <<>>)
        k == SkipWs(s, j + 1)
    IN  CASE j > Len(s) -> ParseFail
          [] j <= Len(s) /\ s[j] = "n" ->
                IF StartsWith(s, j, <<"n", "u", "l", "l">>)
                THEN ParseOk(Null, j + 4) ELSE ParseFail
          [] j <= Len(s) /\ s[j] = "t" ->
                IF StartsWith(s, j, <<"t", "r", "u", "e">>)
                THEN ParseOk(Bool(TRUE), j + 4) ELSE ParseFail
          [] j <= Len(s) /\ s[j] = "f" ->
                IF StartsWith(s, j, <<"f", "a", "l", "s", "e">>)
                THEN ParseOk(Bool(FALSE), j + 5) ELSE ParseFail
          [] j <= Len(s) /\ s[j] = "0" -> ParseOk(Num(0), j + 1)
          [] j <= Len(s) /\ s[j] \in Digit \ {"0"} ->
                ParseOk(Num(TextToNat(SubSeq(s, j, e))), e + 1)
          [] j <= Len(s) /\ s[j] = "\"" ->
                IF str.ok THEN ParseOk(Str(str.val), str.pos) ELSE ParseFail
          [] j <= Len(s) /\ s[j] = "[" ->
                IF k <= Len(s) /\ s[k] = "]" THEN ParseOk(EmptyList, k + 1)
                ELSE ParseItems(s, k, <<>>)
          [] j <= Len(s) /\ s[j] = "{" ->
                IF k <= Len(s) /\ s[k] = "}" THEN ParseOk(EmptyObj, k + 1)
                ELSE ParseMembers(s, k, <<>>)
          [] OTHER -> ParseFail

\* The items of an array from index i on, up to the closing bracket.
ParseItems(s, i, acc) ==
    LET r == ParseValue(s, i)
        k == SkipWs(s, r.pos)
    IN  CASE ~r.ok -> ParseFail
          [] r.ok /\ k <= Len(s) /\ s[k] = "," ->
                ParseItems(s, k + 1, Append(acc, r.val))
          [] r.ok /\ k <= Len(s) /\ s[k] = "]" ->
                ParseOk(List(Append(acc, r.val)), k + 1)
          [] OTHER -> ParseFail

\* The members of an object from index i on, up to the closing brace.
ParseMembers(s, i, acc) ==
    LET j == SkipWs(s, i)
        key == IF j <= Len(s) /\ s[j] = "\""
               THEN ParseString(s, j + 1, <<>>) ELSE ParseFail
        c == SkipWs(s, key.pos)
        r == IF key.ok /\ c <= Len(s) /\ s[c] = ":"
             THEN ParseValue(s, c + 1) ELSE ParseFail
        k == SkipWs(s, r.pos)
    IN  CASE ~r.ok -> ParseFail
          [] r.ok /\ k <= Len(s) /\ s[k] = "," ->
                ParseMembers(s, k + 1, ObjPut(acc, key.val, r.val))
          [] r.ok /\ k <= Len(s) /\ s[k] = "}" ->
                ParseOk(Obj(ObjPut(acc, key.val, r.val)), k + 1)
          [] OTHER -> ParseFail

\* json.loads(s): the value, or Fault for JSONDecodeError.
Loads(s) ==
    LET r == ParseValue(s, 1)
    IN  IF r.ok /\ SkipWs(s, r.pos) > Len(s) THEN r.val ELSE Fault

----------------------------------------------------------------------------
(* str(v), as an f-string formats a value *)

InText(c, s) == \E i \in 1..Len(s) : s[i] = c

ReprChar(c, q) ==
    CASE c = "\\" -> <<"\\", "\\">>
      [] c = "\n" -> <<"\\", "n">>
      [] c = q    -> <<"\\", q>>
      [] OTHER    -> <<c>>

RECURSIVE ReprText(_, _)
ReprText(s, q) ==
    IF Len(s) = 0 THEN <<>>
    ELSE IF Len(s) = 1 THEN ReprChar(s[1], q)
    ELSE ReprText(SubSeq(s, 1, Len(s) \div 2), q)
         \o ReprText(SubSeq(s, (Len(s) \div 2) + 1, Len(s)), q)

\* repr of a str: single quotes, double quotes when only ' occurs in it
ReprStr(s) ==
    IF InText("'", s) /\ ~InText("\"", s)
    THEN <<"\"">> \o ReprText(s, "\"") \o <<"\"">>
    ELSE <<"'">> \o ReprText(s, "'") \o <<"'">>

RECURSIVE PyRepr(_), ReprItems(_, _), ReprMembers(_, _)
PyRepr(v) ==
    CASE v.t = "null" -> <<"N", "o", "n", "e">>
      [] v.t = "bool" -> IF v.b THEN <<"T", "r", "u", "e">>
                                ELSE <<"F", "a", "l", "s", "e">>
      [] v.t = "num"  -> NatToText(v.n)
      [] v.t = "str"  -> ReprStr(v.s)
      [] v.t = "list" -> <<"[">> \o ReprItems(v.xs, 1) \o <<"]">>
      [] v.t = "obj"  -> <<"{">> \o ReprMembers(v.kv, 1) \o <<"}">>

ReprItems(xs, i) ==
    IF i > Len(xs) THEN <<>>
    ELSE (IF i > 1 THEN <<",", " ">> ELSE <<>>)
         \o PyRepr(xs[i]) \o ReprItems(xs, i + 1)

ReprMembers(kv, i) ==
    IF i > Len(kv) THEN <<>>
    ELSE (IF i > 1 THEN <<",", " ">> ELSE <<>>)
         \o ReprStr(kv[i][1]) \o <<":", " ">> \o PyRepr(kv[i][2])
         \o ReprMembers(kv, i + 1)

PyStr(v) == IF IsStr(v) THEN v.s ELSE PyRepr(v)

----------------------------------------------------------------------------
(* Response messages and subjects of main.py *)

BadJson == <<"B", "a", "d", " ", "J", "S", "O", "N">>

NoEmailProvided == <<"N", "o", " ", "e", "m", "a", "i", "l", " ", "p", "r", "o", "v", "i", "d", "e", "d">>

EmailSentTo == <<"E", "m", "a", "i", "l", " ", "s", "e", "n", "t", " ", "t", "o", " ">>

FailedToSend == <<"F", "a", "i", "l", "e", "d", " ", "t", "o", " ", "s", "e", "n", "d", " ", "e", "m", "a", "i", "l">>

IgnoredPrefix == <<"I", "g", "n", "o", "r", "e", "d", ":", " ">>

NoEmailFound == <<"N", "o", " ", "e", "m", "a", "i", "l", " ", "f", "o", "u", "n", "d">>

FollowUpSentTo == <<"F", "o", "l", "l", "o", "w", "-", "u", "p", " ", "s", "e", "n", "t", " ", "t", "o", " ">>

SubjectPrefix == <<"Y", "o", "u", "r", " ">>

SubjectSuffix == <<" ", "-", " ", "B", "o", "c", "a", " ", "R", "a", "t", "o", "n", " ", "H", "e", "a", "l", "t", "h", " ", "I", "n", "s", "u", "r", "e", "r", "s">>

NextStepsSubject == <<"Y", "o", "u", "r", " ", "N", "e", "x", "t", " ", "S", "t", "e", "p", "s", " ", "-", " ", "B", "o", "c", "a", " ", "R", "a", "t", "o", "n", " ", "H", "e", "a", "l", "t", "h", " ", "I", "n", "s", "u", "r", "e", "r", "s">>

\* {"success": ok, "message": m}
Result(ok, m) == [t |-> "result", success |-> ok, message |-> m]

IsResult(v) == v.t = "result"

\* A local variable that has not been assigned yet.
Unset == [t |-> "unset"]

----------------------------------------------------------------------------
(* extract_tool_call_args *)

\* The body of the try block: the returned value, Null when the function
\* falls through to "return None", Fault when an exception is raised.
ToolCallTry(p) ==
    LET message    == PyGet(p, K_message, EmptyObj)
        tool_calls == PyOr(PyOr(PyGet(message, K_toolCalls, Null),
                                PyGet(message, K_toolCallList, Null)),
                           EmptyList)
        first      == tool_calls.xs[1]
        function   == PyGet(first, K_function, EmptyObj)
        arguments  == PyGet(function, K_arguments, EmptyObj)
    IN  IF ~IsObj(p) \/ ~IsObj(message) THEN Fault
        ELSE IF ~Truthy(tool_calls) THEN Null
        ELSE IF tool_calls.t # "list" THEN Fault
        ELSE IF ~IsObj(first) \/ ~IsObj(function) THEN Fault
        ELSE IF IsStr(arguments) THEN Loads(arguments.s)
        ELSE arguments

\* except Exception: print(...); then return None
extract_tool_call_args(p) ==
    LET r == ToolCallTry(p) IN IF r = Fault THEN Null ELSE r

----------------------------------------------------------------------------
(* send_email *)

\* What the SMTP server does with one session.
SmtpOutcomes == {"accepted", "auth-rejected", "transport-error"}

\* The try block: "none" when it runs to "return True", else the exception.
\* msg.as_string() raises AttributeError for a To header that is not a str.
SendTry(to_email, smtp) ==
    CASE smtp = "transport-error" -> "Exception"
      [] smtp = "auth-rejected"   -> "SMTPAuthenticationError"
      [] OTHER -> IF IsStr(to_email) THEN "none" ELSE "Exception"

\* send_email without its "except Exception" clause: other errors escape.
send_email_uncaught(to_email, smtp, credentials) ==
    IF ~credentials
    THEN [ret |-> Bool(FALSE), log |-> "ERROR: Missing Gmail credentials"]
    ELSE LET raised == SendTry(to_email, smtp)
         IN  CASE raised = "none" ->
                    [ret |-> Bool(TRUE), log |-> "Sent email"]
               [] raised = "SMTPAuthenticationError" ->
                    [ret |-> Bool(FALSE), log |-> "ERROR: Gmail auth failed"]
               [] OTHER ->
                    [ret |-> Fault, log |-> "Traceback"]

\* send_email(to_email, subject, html_content) for a server behaviour smtp:
\* the returned bool (Fault if an exception escaped) and the line printed.
send_email(to_email, smtp, credentials) ==
    IF ~credentials
    THEN [ret |-> Bool(FALSE), log |-> "ERROR: Missing Gmail credentials"]
    ELSE LET raised == SendTry(to_email, smtp)
         IN  CASE raised = "none" ->
                    [ret |-> Bool(TRUE), log |-> "Sent email"]
               [] raised = "SMTPAuthenticationError" ->
                    [ret |-> Bool(FALSE), log |-> "ERROR: Gmail auth failed"]
               [] OTHER ->
                    [ret |-> Bool(FALSE), log |-> "ERROR: Email failed"]

----------------------------------------------------------------------------
(* The request bodies the model posts *)

\* A member left out of an object under construction.
Absent == [t |-> "absent"]

Opt(k, v) == IF v = Absent THEN <<>> ELSE <<<<k, v>>>>

K_note == <<"n", "o", "t", "e">>

StatusUpdate == <<"s", "t", "a", "t", "u", "s", "-", "u", "p", "d", "a", "t", "e">>

MsgCustomerAddr == <<"a", "@", "b", ".", "c", "d">>

TopCustomerAddr == <<"e", "@", "f", ".", "g", "h">>

CallCustomerAddr == <<"i", "@", "j", ".", "k", "l">>

MsgTranscriptAddr == <<"m", "+", "1", "@", "n", "-", "n", ".", "o", "p">>

SecondAddr == <<"q", "@", "r", ".", "s", "t">>

TopTranscriptAddr == <<"u", "@", "v", ".", "w", "x">>

NoteAddr == <<"y", "@", "z", ".", "z", "z">>

ArgAddr == <<"x", "@", "y", ".", "c", "o", "m">>

DirectAddr == <<"d", "@", "e", ".", "f", "r">>

NoAddrText == <<"c", "a", "l", "l", " ", "m", "e", " ", "@", " ", "9">>

Customer(addr) == Obj(<<<<K_email, Str(addr)>>>>)

\* End-of-call reports of the documented shapes: every combination of the
\* three customer places, the two transcripts and an unrelated field.
ReportPayloads ==
    { Obj(Opt(K_message,
              Obj(<<<<K_type, Str(EndOfCallReport)>>>>
                  \o Opt(K_customer, mc) \o Opt(K_call, call)
                  \o Opt(K_transcript, mt)))
          \o Opt(K_customer, tc) \o Opt(K_transcript, tt) \o Opt(K_note, note)) :
        mc   \in {Absent, Customer(MsgCustomerAddr), Customer(<<>>), EmptyObj},
        tc   \in {Absent, Customer(TopCustomerAddr)},
        call \in {Absent, Obj(<<<<K_customer, Customer(CallCustomerAddr)>>>>), EmptyObj},
        mt   \in {Absent, Str(NoAddrText),
                  Str(<<"t", "o", " ">> \o MsgTranscriptAddr \o <<",", " ">> \o SecondAddr)},
        tt   \in {Absent, Str(<<"a", "t", " ">> \o TopTranscriptAddr)},
        note \in {Absent, List(<<Str(<<"n", "/", "a">>), Obj(<<<<K_note, Str(NoteAddr)>>>>)>>)} }

\* Every way the message kind can be given, with a customer email present.
KindPayloads ==
    { Obj(Opt(K_message, m) \o Opt(K_type, tt)
          \o <<<<K_transcript, Str(TopTranscriptAddr)>>>>) :
        m  \in {Absent}
               \cup { Obj(Opt(K_type, mt)
                          \o <<<<K_customer, Customer(MsgCustomerAddr)>>>>) :
                      mt \in {Absent, Null, Num(0), Str(StatusUpdate),
                              Str(EndOfCallReport)} },
        tt \in {Absent, Str(StatusUpdate), Str(EndOfCallReport)} }

Report(members) ==
    Obj(<<<<K_message, Obj(<<<<K_type, Str(EndOfCallReport)>>>> \o members)>>>>)

\* JSON bodies that are valid but not of the documented shape.
OddPayloads ==
    { Null, Num(5), Num(0), Bool(TRUE), Str(MsgCustomerAddr), EmptyList,
      List(<<Num(1)>>), EmptyObj,
      Obj(<<<<K_message, Null>>, <<K_type, Str(StatusUpdate)>>>>),
      Obj(<<<<K_message, Str(<<"h", "i">>)>>>>),
      Obj(<<<<K_message, EmptyList>>, <<K_type, Str(EndOfCallReport)>>>>),
      Report(<<<<K_customer, Str(MsgCustomerAddr)>>>>),
      Report(<<<<K_customer, Num(5)>>>>),
      Report(<<<<K_customer, Null>>, <<K_transcript, Str(MsgTranscriptAddr)>>>>),
      Report(<<<<K_customer, Obj(<<<<K_email, Num(7)>>>>)>>>>),
      Report(<<<<K_customer, Obj(<<<<K_email, List(<<Str(MsgCustomerAddr)>>)>>>>)>>>>),
      Report(<<<<K_customer, Customer(MsgCustomerAddr)>>, <<K_call, Null>>>>),
      Report(<<<<K_customer, Customer(MsgCustomerAddr)>>,
               <<K_call, Str(<<"i", "d">>)>>>>),
      Report(<<<<K_call, Obj(<<<<K_customer, Str(CallCustomerAddr)>>>>)>>>>),
      Report(<<<<K_call, Obj(<<<<K_customer, Null>>>>)>>>>),
      Report(<<<<K_transcript, Num(5)>>>>),
      Report(<<<<K_transcript, List(<<Str(MsgTranscriptAddr)>>)>>>>),
      Report(<<<<K_transcript, Obj(<<<<K_note, Str(NoteAddr)>>>>)>>>>),
      Report(<<<<K_transcript, Num(0)>>, <<K_note, Str(NoteAddr)>>>>),
      Report(<<<<K_note, Str(<<"\"">> \o NoteAddr \o <<"\\">>)>>>>),
      Report(<<<<NoteAddr, Num(1)>>>>),
      Obj(<<<<K_message, Obj(<<<<K_type, Str(EndOfCallReport)>>>>)>>,
            <<K_customer, List(<<Customer(TopCustomerAddr)>>)>>>>),
      Obj(<<<<K_message, Obj(<<<<K_type, Str(EndOfCallReport)>>>>)>>,
            <<K_transcript, Num(5)>>>>) }

\* Argument mappings: each field missing, a string, null, or another type.
ArgObjects ==
    { Obj(Opt(K_user_email, e) \o Opt(K_user_name, n) \o Opt(K_topic, tp)) :
        e  \in {Absent, Str(ArgAddr), EmptyStr, Null, Num(7)},
        n  \in {Absent, Str(<<"A", "l">>), Null, Num(3)},
        tp \in {Absent, Str(<<"q", "u", "o", "t", "e">>), Null} }

ToolArgObjects ==
    { a \in ArgObjects :
        \/ ~HasKey(a, K_user_name) /\ ~HasKey(a, K_topic)
        \/ HasKey(a, K_user_name) /\ HasKey(a, K_topic)
           /\ Get(a, K_user_email, Null) = Str(ArgAddr)
           /\ Get(a, K_user_name, Null).t = Get(a, K_topic, Null).t }

\* What function.arguments can hold: a mapping, its JSON text, JSON text of
\* another type, text that is not JSON, or a value of another type.
ArgumentValues ==
    ToolArgObjects
    \cup { Str(Dumps(a)) : a \in ToolArgObjects }
    \cup { Str(Dumps(v)) : v \in {List(<<Num(1)>>), Null, Num(5), Num(0),
                                   Str(ArgAddr), EmptyList} }
    \cup { Str(<<"{", "\"", "u", "s", "e", "r">>), EmptyStr, Str(ArgAddr),
           Num(5), List(<<Str(ArgAddr)>>), Null, Absent }

ToolCall(a) == Obj(<<<<K_function, Obj(Opt(K_arguments, a))>>>>)

DirectFields ==
    <<<<K_user_email, Str(DirectAddr)>>, <<K_user_name, Str(<<"B", "o">>)>>>>

ToolCallPayloads ==
    { Obj(<<<<K_message, Obj(<<<<key, List(<<ToolCall(a)>>)>>>>)>>>> \o extra) :
        key \in {K_toolCalls, K_toolCallList},
        a \in ArgumentValues,
        extra \in {<<>>, DirectFields} }

GoodCall == ToolCall(Obj(<<<<K_user_email, Str(ArgAddr)>>>>))

OtherCall == ToolCall(Obj(<<<<K_user_email, Str(SecondAddr)>>>>))

\* Tool-call lists of other shapes.
OddToolCallPayloads ==
    { Obj(<<<<K_message, m>>>> \o extra) :
        m \in { Obj(<<<<K_toolCalls, List(<<GoodCall, OtherCall>>)>>>>),
                Obj(<<<<K_toolCalls, EmptyList>>,
                      <<K_toolCallList, List(<<GoodCall>>)>>>>),
                Obj(<<<<K_toolCalls, List(<<OtherCall>>)>>,
                      <<K_toolCallList, List(<<GoodCall>>)>>>>),
                Obj(<<<<K_toolCalls, EmptyList>>>>),
                Obj(<<<<K_toolCalls, Null>>>>),
                Obj(<<<<K_toolCalls, Str(ArgAddr)>>>>),
                Obj(<<<<K_toolCalls, Num(1)>>>>),
                Obj(<<<<K_toolCalls, GoodCall>>>>),
                Obj(<<<<K_toolCalls, List(<<Num(1)>>)>>>>),
                Obj(<<<<K_toolCalls, List(<<EmptyObj>>)>>>>),
                Obj(<<<<K_toolCalls, List(<<Obj(<<<<K_function, Null>>>>)>>)>>>>),
                Obj(<<<<K_toolCalls,
                        List(<<Obj(<<<<K_function, Str(ArgAddr)>>>>)>>)>>>>),
                Str(ArgAddr), Null, EmptyObj },
        extra \in {<<>>, DirectFields} }

Payloads ==
    ReportPayloads \cup KindPayloads \cup OddPayloads \cup ArgObjects
    \cup ToolCallPayloads \cup OddToolCallPayloads

\* Bodies request.json() rejects.
MalformedBodies ==
    { <<>>, <<"{">>, <<"h", "i">>,
      <<"{", "\"", "m", "e", "s", "s", "a", "g", "e", "\"", ":", "}">> }

Bodies == { Dumps(p) : p \in Payloads } \cup MalformedBodies

Endpoints == {"/send-specific-email", "/vapi-webhook"}

----------------------------------------------------------------------------
(* The handlers.  Each request runs in its own coroutine with its own      *)
(* locals; Req are the request slots of the model.                         *)

Req == {1, 2}

NoLocals(r) ==
    /\ payload' = [payload EXCEPT ![r] = Unset]
    /\ tool_args' = [tool_args EXCEPT ![r] = Unset]
    /\ args' = [args EXCEPT ![r] = Unset]
    /\ msg_type' = [msg_type EXCEPT ![r] = Unset]
    /\ user_email' = [user_email EXCEPT ![r] = Unset]
    /\ user_name' = [user_name EXCEPT ![r] = Unset]
    /\ topic' = [topic EXCEPT ![r] = Unset]
    /\ subject' = [subject EXCEPT ![r] = Unset]

\* user_email = e with user_email a module-level name: one for all requests.
SetEmailGlobal(r, e) == user_email' = [s \in Req |-> e]

\* user_email = e: an assignment to the handler's own local.
SetEmail(r, e) == user_email' = [user_email EXCEPT ![r] = e]

\* The framework calls the route's handler with the posted body.
Receive(r, ep, b) ==
    /\ pc[r] = "idle"
    /\ pc' = [pc EXCEPT ![r] = "received"]
    /\ endpoint' = [endpoint EXCEPT ![r] = ep]
    /\ body' = [body EXCEPT ![r] = b]
    /\ NoLocals(r)
    /\ response' = [response EXCEPT ![r] = Unset]
    /\ lookups' = [lookups EXCEPT ![r] = {}]
    /\ sends' = [sends EXCEPT ![r] = <<>>]
    /\ UNCHANGED envVars

\* The handler returns v: a result object, or Fault for an exception that
\* leaves the handler.
Return(r, v) ==
    /\ response' = [response EXCEPT ![r] = v]
    /\ pc' = [pc EXCEPT ![r] = "done"]

\* try: payload = await request.json() / except: return Bad JSON
ParseBody(r) ==
    /\ pc[r] = "received"
    /\ LET p == Loads(body[r])
       IN  IF p = Fault
           THEN /\ Return(r, Result(FALSE, BadJson))
                /\ UNCHANGED payload
           ELSE /\ payload' = [payload EXCEPT ![r] = p]
                /\ pc' = [pc EXCEPT ![r] =
                            IF endpoint[r] = "/vapi-webhook"
                            THEN "classify" ELSE "args"]
                /\ UNCHANGED response
    /\ UNCHANGED <<endpoint, body, tool_args, args, msg_type, user_email, user_name,
                   topic, subject, lookups, sends, envVars>>

\* send_specific_email: args = extract_tool_call_args(payload) or payload
ToolArgs(r) ==
    /\ pc[r] = "args"
    /\ LET extracted == extract_tool_call_args(payload[r])
       IN  /\ tool_args' = [tool_args EXCEPT ![r] = extracted]
           /\ args' = [args EXCEPT ![r] = PyOr(extracted, payload[r])]
    /\ pc' = [pc EXCEPT ![r] = "read"]
    /\ UNCHANGED <<endpoint, body, payload, msg_type, user_email, user_name,
                   topic, subject, response, lookups, sends, envVars>>

\* send_specific_email: the three args.get calls and the "not user_email"
\* return.
ReadArgs(r) ==
    /\ pc[r] = "read"
    /\ LET e == PyGet(args[r], K_user_email, Null)
           n == PyGet(args[r], K_user_name, Str(DefaultName))
           tp == PyGet(args[r], K_topic, Str(DefaultTopic))
       IN  IF ~IsObj(args[r])
           THEN /\ Return(r, Fault)
                /\ UNCHANGED <<user_email, user_name, topic>>
           ELSE /\ SetEmail(r, e)
                /\ user_name' = [user_name EXCEPT ![r] = n]
                /\ topic' = [topic EXCEPT ![r] = tp]
                /\ IF ~Truthy(e)
                   THEN Return(r, Result(FALSE, NoEmailProvided))
                   ELSE /\ pc' = [pc EXCEPT ![r] = "template"]
                        /\ UNCHANGED response
    /\ UNCHANGED <<endpoint, body, payload, tool_args, args, msg_type, subject, lookups,
                   sends, envVars>>

\* send_specific_email: subject and html_content, formatted from topic and
\* user_name.  The model keeps the subject and the two substituted texts.
FillTemplate(r) ==
    /\ pc[r] = "template"
    /\ subject' = [subject EXCEPT ![r] =
          [subject |-> SubjectPrefix \o PyStr(topic[r]) \o SubjectSuffix,
           name |-> PyStr(user_name[r]),
           topic |-> PyStr(topic[r])]]
    /\ pc' = [pc EXCEPT ![r] = "send"]
    /\ UNCHANGED <<endpoint, body, payload, tool_args, args, msg_type, user_email,
                   user_name, topic, response, lookups, sends, envVars>>

\* message_data = payload.get("message", {})
MessageData(p) == PyGet(p, K_message, EmptyObj)

\* msg_type = message_data.get("type") or payload.get("type")
MessageKind(p) ==
    LET message_data == MessageData(p)
    IN  IF ~IsObj(p) \/ ~IsObj(message_data) THEN Fault
        ELSE PyOr(Get(message_data, K_type, Null), Get(p, K_type, Null))

\* Classify without the early return: every kind goes on to the lookups.
ClassifyNoReturn(r) ==
    /\ pc[r] = "classify"
    /\ LET kind == MessageKind(payload[r])
       IN  IF kind = Fault
           THEN /\ Return(r, Fault)
                /\ UNCHANGED msg_type
           ELSE /\ msg_type' = [msg_type EXCEPT ![r] = kind]
                /\ pc' = [pc EXCEPT ![r] = "customer"]
                /\ UNCHANGED response
    /\ UNCHANGED <<endpoint, body, payload, tool_args, args, user_email,
                   user_name, topic, subject, lookups, sends, envVars>>

\* vapi_webhook: classification, and the return for other kinds.
Classify(r) ==
    /\ pc[r] = "classify"
    /\ LET kind == MessageKind(payload[r])
       IN  IF kind = Fault
           THEN /\ Return(r, Fault)
                /\ UNCHANGED msg_type
           ELSE /\ msg_type' = [msg_type EXCEPT ![r] = kind]
                /\ IF kind # Str(EndOfCallReport)
                   THEN Return(r, Result(TRUE, IgnoredPrefix \o PyStr(kind)))
                   ELSE /\ pc' = [pc EXCEPT ![r] = "customer"]
                        /\ UNCHANGED response
    /\ UNCHANGED <<endpoint, body, payload, tool_args, args, user_email, user_name,
                   topic, subject, lookups, sends, envVars>>

\* The list the for loop iterates over; all three elements are evaluated
\* before the loop starts.  Fault when building it raises.
CustomerPaths(p) ==
    LET message_data == MessageData(p)
        call == Get(message_data, K_call, EmptyObj)
    IN  IF ~IsObj(call) THEN Fault
        ELSE << Get(message_data, K_customer, EmptyObj),
                Get(p, K_customer, EmptyObj),
                Get(call, K_customer, EmptyObj) >>

\* for path in paths[i..]: if path and path.get("email"): ... break
\* Returns user_email after the loop (Null when nothing was found).
RECURSIVE CustomerLoop(_, _)
CustomerLoop(paths, i) ==
    IF i > Len(paths) THEN Null
    ELSE IF ~Truthy(paths[i]) THEN CustomerLoop(paths, i + 1)
    ELSE IF ~IsObj(paths[i]) THEN Fault
    ELSE IF Truthy(Get(paths[i], K_email, Null))
         THEN Get(paths[i], K_email, Null)
         ELSE CustomerLoop(paths, i + 1)

CustomerEmail(p) ==
    LET paths == CustomerPaths(p)
    IN  IF paths = Fault THEN Fault ELSE CustomerLoop(paths, 1)

\* vapi_webhook: user_email = None and the loop over the customer places.
LookupCustomer(r) ==
    /\ pc[r] = "customer"
    /\ lookups' = [lookups EXCEPT ![r] = @ \cup {"customer"}]
    /\ LET e == CustomerEmail(payload[r])
       IN  IF e = Fault
           THEN /\ Return(r, Fault)
                /\ SetEmail(r, Null)
           ELSE /\ SetEmail(r, e)
                /\ pc' = [pc EXCEPT ![r] = "transcript"]
                /\ UNCHANGED response
    /\ UNCHANGED <<endpoint, body, payload, tool_args, args, msg_type, user_name, topic,
                   subject, sends, envVars>>

\* transcript = message_data.get("transcript") or payload.get("transcript", "")
Transcript(p) ==
    PyOr(Get(MessageData(p), K_transcript, Null), Get(p, K_transcript, EmptyStr))

\* vapi_webhook: if not user_email: scan the transcript
ScanTranscript(r) ==
    /\ pc[r] = "transcript"
    /\ IF Truthy(user_email[r])
       THEN /\ pc' = [pc EXCEPT ![r] = "scan"]
            /\ UNCHANGED <<user_email, response, lookups>>
       ELSE /\ lookups' = [lookups EXCEPT ![r] = @ \cup {"transcript"}]
            /\ LET e == extract_email_from_text(Transcript(payload[r]))
               IN  IF e = Fault
                   THEN /\ Return(r, Fault)
                        /\ UNCHANGED user_email
                   ELSE /\ SetEmail(r, e)
                        /\ pc' = [pc EXCEPT ![r] = "scan"]
                        /\ UNCHANGED response
    /\ UNCHANGED <<endpoint, body, payload, tool_args, args, msg_type, user_name, topic,
                   subject, sends, envVars>>

\* vapi_webhook: if not user_email: scan json.dumps(payload); then the
\* "No email found" return and the subject.
ScanPayload(r) ==
    /\ pc[r] = "scan"
    /\ LET e == IF Truthy(user_email[r]) THEN user_email[r]
                ELSE extract_email_from_text(Str(Dumps(payload[r])))
       IN  /\ SetEmail(r, e)
           /\ lookups' = [lookups EXCEPT ![r] =
                            IF Truthy(user_email[r]) THEN @
                            ELSE @ \cup {"payload"}]
           /\ IF ~Truthy(e)
              THEN /\ Return(r, Result(FALSE, NoEmailFound))
                   /\ UNCHANGED subject
              ELSE /\ subject' = [subject EXCEPT ![r] =
                                    [subject |-> NextStepsSubject]]
                   /\ pc' = [pc EXCEPT ![r] = "send"]
                   /\ UNCHANGED response
    /\ UNCHANGED <<endpoint, body, payload, tool_args, args, msg_type, user_name, topic,
                   sends, envVars>>

\* The message of the handler's success return.
SentMessage(ep, to_email) ==
    (IF ep = "/vapi-webhook" THEN FollowUpSentTo ELSE EmailSentTo)
    \o PyStr(to_email)

\* Both handlers: if send_email(...): return success / return failure
Send(r, smtp) ==
    /\ pc[r] = "send"
    /\ LET out == send_email(user_email[r], smtp, creds)
       IN  /\ sends' = [sends EXCEPT ![r] =
                          Append(@, [to |-> user_email[r],
                                     subject |-> subject[r].subject,
                                     ret |-> out.ret, log |-> out.log])]
           /\ IF out.ret = Fault THEN Return(r, Fault)
              ELSE IF Truthy(out.ret)
              THEN Return(r, Result(TRUE, SentMessage(endpoint[r], user_email[r])))
              ELSE Return(r, Result(FALSE, FailedToSend))
    /\ UNCHANGED <<endpoint, body, payload, tool_args, args, msg_type, user_email,
                   user_name, topic, subject, lookups, envVars>>

\* The framework sends the response; the coroutine and its locals are gone.
Respond(r) ==
    /\ pc[r] = "done"
    /\ pc' = [pc EXCEPT ![r] = "idle"]
    /\ endpoint' = [endpoint EXCEPT ![r] = "none"]
    /\ body' = [body EXCEPT ![r] = <<>>]
    /\ NoLocals(r)
    /\ response' = [response EXCEPT ![r] = Unset]
    /\ lookups' = [lookups EXCEPT ![r] = {}]
    /\ sends' = [sends EXCEPT ![r] = <<>>]
    /\ UNCHANGED envVars

Idle ==
    /\ pc = [r \in Req |-> "idle"]
    /\ endpoint = [r \in Req |-> "none"]
    /\ body = [r \in Req |-> <<>>]
    /\ payload = [r \in Req |-> Unset]
    /\ tool_args = [r \in Req |-> Unset]
    /\ args = [r \in Req |-> Unset]
    /\ msg_type = [r \in Req |-> Unset]
    /\ user_email = [r \in Req |-> Unset]
    /\ user_name = [r \in Req |-> Unset]
    /\ topic = [r \in Req |-> Unset]
    /\ subject = [r \in Req |-> Unset]
    /\ response = [r \in Req |-> Unset]
    /\ lookups = [r \in Req |-> {}]
    /\ sends = [r \in Req |-> <<>>]

\* One request at a time, over all bodies.
Init ==
    /\ Idle
    /\ creds \in BOOLEAN
    /\ text = Null
    /\ pieces = 0
    /\ found = Unset

Next ==
    \/ \E ep \in Endpoints, b \in Bodies : Receive(1, ep, b)
    \/ ParseBody(1)
    \/ ToolArgs(1)
    \/ ReadArgs(1)
    \/ FillTemplate(1)
    \/ Classify(1)
    \/ LookupCustomer(1)
    \/ ScanTranscript(1)
    \/ ScanPayload(1)
    \/ \E smtp \in SmtpOutcomes : Send(1, smtp)
    \/ Respond(1)

Spec == Init /\ [][Next]_vars

----------------------------------------------------------------------------
(* Concurrent requests: the framework runs one coroutine per request.      *)

ConcPayloads ==
    { Report(<<<<K_customer, Customer(MsgCustomerAddr)>>,
               <<K_transcript, Str(MsgTranscriptAddr)>>>>),
      Report(<<<<K_transcript,
                 Str(MsgTranscriptAddr \o <<" ">> \o SecondAddr)>>>>),
      Report(<<<<K_note, Str(NoteAddr)>>>>),
      Report(<<>>),
      Obj(<<<<K_type, Str(StatusUpdate)>>,
            <<K_customer, Customer(TopCustomerAddr)>>>>),
      Obj(<<<<K_message, Obj(<<<<K_toolCalls, List(<<ToolCall(
                Str(Dumps(Obj(<<<<K_user_email, Str(ArgAddr)>>>>))))>>)>>>>)>>>>),
      Obj(DirectFields),
      List(<<Num(1)>>) }

ConcBodies == { Dumps(p) : p \in ConcPayloads } \cup { <<"{">> }

NextConc ==
    \/ \E r \in Req, ep \in Endpoints, b \in ConcBodies : Receive(r, ep, b)
    \/ \E r \in Req : ParseBody(r)
    \/ \E r \in Req : ToolArgs(r)
    \/ \E r \in Req : ReadArgs(r)
    \/ \E r \in Req : FillTemplate(r)
    \/ \E r \in Req : Classify(r)
    \/ \E r \in Req : LookupCustomer(r)
    \/ \E r \in Req : ScanTranscript(r)
    \/ \E r \in Req : ScanPayload(r)
    \/ \E r \in Req, smtp \in SmtpOutcomes : Send(r, smtp)
    \/ \E r \in Req : Respond(r)

SpecConc == Init /\ [][NextConc]_vars

----------------------------------------------------------------------------
(* extract_email_from_text on its own, over texts put together from        *)
(* fragments.                                                              *)

MaxFrags == 5

Fragments ==
    { <<"a">>, <<"1">>, <<".">>, <<"@">>, <<"+">>, <<" ">>,
      <<"b", "@", "c", ".", "d", "e">> }

InitRegex ==
    /\ Idle
    /\ creds = TRUE
    /\ text \in {Null, EmptyStr}
    /\ pieces = 0
    /\ found = Unset

\* The caller's text grows by one fragment.
Write(f) ==
    /\ pieces < MaxFrags
    /\ text' = Str((IF text = Null THEN <<>> ELSE text.s) \o f)
    /\ pieces' = pieces + 1
    /\ found' = Unset
    /\ UNCHANGED <<reqVars, creds>>

\* found = extract_email_from_text(text)
Search ==
    /\ found = Unset
    /\ found' = extract_email_from_text(text)
    /\ UNCHANGED <<reqVars, creds, text, pieces>>

NextRegex ==
    \/ \E f \in Fragments : Write(f)
    \/ Search

SpecRegex == InitRegex /\ [][NextRegex]_vars

----------------------------------------------------------------------------
(* Properties *)

WebhookRoute == "/vapi-webhook"

MidCallRoute == "/send-specific-email"

\* v.k with optional chaining: null when v is no mapping or has no k.
At(v, k) == IF IsObj(v) /\ HasKey(v, k) THEN Get(v, k, Null) ELSE Null

NonEmptyList(v) == v.t = "list" /\ v.xs # <<>>

IsText(m) == m = <<>> \/ DOMAIN m = 1..Len(m)

\* C1: every request to either endpoint, whatever the shape of its JSON
\* body, ends in a result object with a boolean success flag and a message
\* string; none ends in an unhandled fault.
C1_AlwaysResult ==
    \A r \in Req :
        pc[r] = "done" =>
            /\ IsResult(response[r])
            /\ response[r].success \in BOOLEAN
            /\ IsText(response[r].message)

\* The recipient C2 describes: the first non-empty email of the three
\* customer places, else the first address in the transcript, else the first
\* address in the serialized payload.
C2_CustomerEmail(p) ==
    LET m == At(p, K_message)
        a == At(At(m, K_customer), K_email)
        b == At(At(p, K_customer), K_email)
        c == At(At(At(m, K_call), K_customer), K_email)
    IN  IF Truthy(a) THEN a ELSE IF Truthy(b) THEN b
        ELSE IF Truthy(c) THEN c ELSE Null

C2_TranscriptEmail(p) ==
    LET t == PyOr(At(At(p, K_message), K_transcript), At(p, K_transcript))
    IN  IF IsStr(t) THEN extract_email_from_text(t) ELSE Null

C2_Recipient(p) ==
    IF Truthy(C2_CustomerEmail(p)) THEN C2_CustomerEmail(p)
    ELSE IF Truthy(C2_TranscriptEmail(p)) THEN C2_TranscriptEmail(p)
    ELSE extract_email_from_text(Str(Dumps(p)))

\* C2: for every end-of-call-report payload, vapi_webhook resolves the
\* recipient in priority order (message.customer.email, customer.email,
\* message.call.customer.email, transcript, whole payload), and runs no scan
\* that a higher-priority source made unnecessary.
C2_PriorityOrder ==
    \A r \in Req :
        (endpoint[r] = WebhookRoute /\ pc[r] = "done"
         /\ msg_type[r] = Str(EndOfCallReport)) =>
            /\ IsResult(response[r])
            /\ user_email[r] = C2_Recipient(payload[r])
            /\ Truthy(C2_CustomerEmail(payload[r])) =>
                   lookups[r] \cap {"transcript", "payload"} = {}
            /\ Truthy(C2_TranscriptEmail(payload[r])) =>
                   "payload" \notin lookups[r]

C4_ArgsSource ==
    \A r \in Req :
        (endpoint[r] = MidCallRoute /\ args[r] # Unset) =>
            /\ args[r] = (IF tool_args[r] # Null THEN tool_args[r]
                          ELSE payload[r])
            /\ (IsObj(tool_args[r]) /\ user_email[r] # Unset) =>
                   user_email[r] = At(tool_args[r], K_user_email)

\* The tool-call list C5 describes: toolCalls, else toolCallList.
C5_ToolCalls(p) ==
    LET m == At(p, K_message)
    IN  IF NonEmptyList(At(m, K_toolCalls)) THEN At(m, K_toolCalls)
        ELSE At(m, K_toolCallList)

\* C5: extract_tool_call_args never raises and returns absent or the
\* arguments mapping of the first tool call: absent when neither list is a
\* non-empty list, absent when the arguments string is not JSON.
C5_ToolCallArgs ==
    \A r \in Req :
        tool_args[r] # Unset =>
            LET calls == C5_ToolCalls(payload[r])
                a == At(At(calls.xs[1], K_function), K_arguments)
            IN  /\ tool_args[r] # Fault
                /\ tool_args[r] = Null \/ IsObj(tool_args[r])
                /\ (~NonEmptyList(At(At(payload[r], K_message), K_toolCalls))
                    /\ ~NonEmptyList(At(At(payload[r], K_message), K_toolCallList)))
                       => tool_args[r] = Null
                /\ (NonEmptyList(calls) /\ IsStr(a) /\ Loads(a.s) = Fault)
                       => tool_args[r] = Null
                /\ (NonEmptyList(calls) /\ IsObj(a)) => tool_args[r] = a

\* The character classes of C6's address shape.
C6_LocalChars == Letter \cup Digit \cup {".", "_", "%", "+", "-"}

C6_DomainChars == Letter \cup Digit \cup {".", "-"}

\* s[i..j] reads local-part@domain.tld with a TLD of at least 2 letters.
C6_IsAddress(s, i, j) ==
    \E a \in (i + 1)..(j - 1) :
        /\ s[a] = "@"
        /\ \A k \in i..(a - 1) : s[k] \in C6_LocalChars
        /\ \E d \in (a + 2)..(j - 2) :
              /\ s[d] = "."
              /\ \A k \in (a + 1)..(d - 1) : s[k] \in C6_DomainChars
              /\ \A k \in (d + 1)..j : s[k] \in Letter

C6_AddressStarts(s) ==
    {i \in 1..Len(s) : \E j \in i..Len(s) : C6_IsAddress(s, i, j)}

C6_Text == IF text = Null THEN <<>> ELSE text.s

\* C6: extract_email_from_text returns a substring of the address shape
\* that starts at the leftmost index where one starts, and absent when the
\* text is empty, absent, or holds no such substring (so for every text
\* without '@').
C6_LeftmostAddress ==
    found # Unset =>
        LET s == C6_Text
            starts == C6_AddressStarts(s)
        IN  /\ found # Fault
            /\ (starts = {}) <=> (found = Null)
            /\ starts # {} =>
                  /\ IsStr(found)
                  /\ \E j \in Min(starts)..Len(s) :
                        /\ C6_IsAddress(s, Min(starts), j)
                        /\ found.s = SubSeq(s, Min(starts), j)
            /\ ~InText("@", s) => found = Null

\* A text with two addresses, the first not at its start, searched.
C6_Witness ==
    /\ found # Unset
    /\ IsStr(found)
    /\ Cardinality(C6_AddressStarts(C6_Text)) > 1
    /\ Cardinality({i \in 1..Len(C6_Text) : C6_Text[i] = "@"}) > 1
    /\ Min(C6_AddressStarts(C6_Text)) > 1

\* C7: in a mid-call request that reaches the template, name and topic are
\* strings: the arguments' value when present, "there" / "your request"
\* when missing or null; with user_email absent or empty the request ends
\* in "No email provided".
C7_StringFields ==
    \A r \in Req :
        (endpoint[r] = MidCallRoute /\ user_name[r] # Unset) =>
            /\ subject[r] # Unset =>
                  /\ IsStr(user_name[r])
                  /\ IsStr(topic[r])
                  /\ user_name[r] =
                       (IF At(args[r], K_user_name) # Null
                        THEN At(args[r], K_user_name) ELSE Str(DefaultName))
                  /\ topic[r] =
                       (IF At(args[r], K_topic) # Null
                        THEN At(args[r], K_topic) ELSE Str(DefaultTopic))
            /\ ~Truthy(At(args[r], K_user_email)) =>
                  /\ pc[r] = "done"
                  /\ response[r] = Result(FALSE, NoEmailProvided)

NamesRecipient(m) ==
    StartsWith(m, 1, EmailSentTo) \/ StartsWith(m, 1, FollowUpSentTo)

\* C8: a request calls send_email at most once, with the non-empty
\* recipient it resolved; the call returns a bool, False for every failure
\* cause; on False the response is success=false "Failed to send email";
\* a success response naming the recipient is given only on True.
C8_SingleSend ==
    \A r \in Req :
        /\ Len(sends[r]) <= 1
        /\ \A i \in 1..Len(sends[r]) :
              /\ sends[r][i].to = user_email[r]
              /\ Truthy(sends[r][i].to)
              /\ sends[r][i].ret \in {Bool(TRUE), Bool(FALSE)}
              /\ (sends[r][i].ret = Bool(TRUE)) <=> (sends[r][i].log = "Sent email")
              /\ ~creds => sends[r][i].ret = Bool(FALSE)
              /\ pc[r] = "done"
              /\ sends[r][i].ret = Bool(FALSE) =>
                    response[r] = Result(FALSE, FailedToSend)
              /\ sends[r][i].ret = Bool(TRUE) =>
                    response[r] = Result(TRUE, SentMessage(endpoint[r], sends[r][i].to))
        /\ (pc[r] = "done" /\ IsResult(response[r]) /\ response[r].success
            /\ NamesRecipient(response[r].message)) =>
              /\ Len(sends[r]) = 1
              /\ sends[r][1].ret = Bool(TRUE)

\* A request whose single send was rejected by the server.
C8_Witness ==
    \E r \in Req :
        /\ pc[r] = "done"
        /\ Len(sends[r]) = 1
        /\ sends[r][1].log = "ERROR: Gmail auth failed"
        /\ response[r] = Result(FALSE, FailedToSend)

\* What a request has resolved so far.
Resolution(r) ==
    <<payload[r], tool_args[r], args[r], msg_type[r], user_email[r],
      user_name[r], topic[r], subject[r], lookups[r]>>

Frame(r) ==
    <<pc[r], endpoint[r], body[r], response[r], sends[r], Resolution(r)>>

FrameNext(r) ==
    <<pc'[r], endpoint'[r], body'[r], response'[r], sends'[r],
      <<payload'[r], tool_args'[r], args'[r], msg_type'[r], user_email'[r],
        user_name'[r], topic'[r], subject'[r], lookups'[r]>> >>

\* Two requests to the same route with the same body have resolved the same
\* at the same point, however their steps interleaved.
C9_SameResolution ==
    \A r, s \in Req :
        (endpoint[r] = endpoint[s] /\ body[r] = body[s] /\ pc[r] = pc[s]) =>
            /\ Resolution(r) = Resolution(s)
            /\ sends[r] = sends[s] => response[r] = response[s]

\* A step leaves the parsed payload as it is and touches one request only.
C9_StepIsLocal ==
    /\ \A r \in Req :
          (payload[r] # Unset /\ pc'[r] # "idle") => payload'[r] = payload[r]
    /\ \A r, s \in Req :
          (r # s /\ FrameNext(r) # Frame(r)) => FrameNext(s) = Frame(s)
    /\ creds' = creds

\* C9: resolution is a function of the payload alone: requests with the
\* same payload resolve the same under every interleaving, no step changes
\* a payload, and no step of one request changes another request's state.
C9_Independent == []C9_SameResolution /\ [][C9_StepIsLocal]_vars

\* Two webhook requests with the same body, both through the transcript
\* scan to the same address, one mail sent and the other failed.
C9_Witness ==
    /\ endpoint[1] = WebhookRoute
    /\ endpoint[2] = WebhookRoute
    /\ body[1] = body[2]
    /\ pc[1] = "done"
    /\ pc[2] = "done"
    /\ sends[1] # sends[2]
    /\ IsStr(user_email[1])
    /\ user_email[1] = user_email[2]
    /\ "transcript" \in lookups[1]

\* Request r is in terminal state k of C10.
C10_In(r, k) ==
    CASE k = "irrelevant" ->
            /\ msg_type[r] # Unset
            /\ msg_type[r] # Str(EndOfCallReport)
            /\ IsResult(response[r])
            /\ response[r].success
            /\ StartsWith(response[r].message, 1, IgnoredPrefix)
      [] k = "not-found" ->
            /\ msg_type[r] = Str(EndOfCallReport)
            /\ ~Truthy(user_email[r])
            /\ response[r] = Result(FALSE, NoEmailFound)
      [] k = "found" ->
            /\ msg_type[r] = Str(EndOfCallReport)
            /\ Truthy(user_email[r])
            /\ Len(sends[r]) = 1
            /\ IsResult(response[r])
            /\ response[r] \in
                  { Result(FALSE, FailedToSend),
                    Result(TRUE, FollowUpSentTo \o PyStr(user_email[r])) }

C10_Terminals(r) == {k \in {"irrelevant", "not-found", "found"} : C10_In(r, k)}

\* C10: a webhook request with a parsed body is classified before any
\* lookup, calls send_email only once an email is found, and ends in
\* exactly one of irrelevant, found, not-found.
C10_StateMachine ==
    \A r \in Req :
        (endpoint[r] = WebhookRoute /\ payload[r] # Unset) =>
            /\ lookups[r] # {} => msg_type[r] = Str(EndOfCallReport)
            /\ sends[r] # <<>> => Truthy(user_email[r])
            /\ pc[r] = "done" => Cardinality(C10_Terminals(r)) = 1

====
